---- MODULE Spec2Model ----
(***************************************************************************)
(* A model of GarchModel (src/model.py): one session object per instrument *)
(* that wrangles a returns series out of a price table, fits a volatility  *)
(* model on it, formats the model's forecast, and saves / reloads fitted   *)
(* models as timestamped files of a model directory.                       *)
(*                                                                         *)
(* Text (file paths, dictionary keys, messages) is a sequence of            *)
(* one-character strings, ordered by code point as Python orders str.      *)
(* A date is a day number counted from 1970-01-01.  An attribute that may  *)
(* be unset is a sequence of length 0 (unset) or 1 (set).                  *)
(***************************************************************************)
EXTENDS Integers, Sequences, FiniteSets, TLC

VARIABLES
    ticker,        \* self.ticker
    use_new_data,  \* self.use_new_data
    data,          \* self.data : <<>> or <<returns series>>
    model,         \* self.model: <<>> or <<fitted model>>
    aic,           \* self.aic  : <<>> or <<number>>
    bic,           \* self.bic  : <<>> or <<number>>
    store,         \* the repository: table name -> set of price rows
    files,         \* the file system under model_directory: path -> file
    clock,         \* the wall clock, in ticks of TickMicros microseconds
    ret            \* outcome of the call made by the last step

vars == <<ticker, use_new_data, data, model, aic, bic, store, files, clock, ret>>

session == <<data, model, aic, bic>>

----------------------------------------------------------------------------
(* Bounds of the model, and the arguments the callers pass.                *)

MaxHorizon == 2      \* horizon ranges over 0..MaxHorizon
MaxTicks == 1        \* the clock is read at ticks 0..MaxTicks
TickMicros == 500000 \* microseconds between two clock readings
MaxFiles == 2        \* capacity of the model directory

\* n_observations of wrangle_data in a full session.
Observations == {0, 1}

\* The lag orders p and q of fit.
LagOrders == {0, 1}

----------------------------------------------------------------------------
(* Text.                                                                   *)

Chars == <<" ", "'", "-", ".", "/", "0", "1", "2", "3", "4", "5", "6", "7",
           "8", "9", ":", "A", "N", "T", "_", "a", "d", "e", "f", "i", "k",
           "l", "m", "n", "o", "p", "r", "s", "t">>

\* Code points of the characters above, as Python's ord().
Codes == <<32, 39, 45, 46, 47, 48, 49, 50, 51, 52, 53, 54, 55,
           56, 57, 58, 65, 78, 84, 95, 97, 100, 101, 102, 105, 107,
           108, 109, 110, 111, 112, 114, 115, 116>>

Ord(c) == Codes[CHOOSE i \in 1..Len(Chars) : Chars[i] = c]

\* s < t for Python str: the first differing character decides, a proper
\* prefix is smaller.
RECURSIVE StrLessFrom(_, _, _)
StrLessFrom(s, t, i) ==
    IF i > Len(t) THEN FALSE
    ELSE IF i > Len(s) THEN TRUE
    ELSE IF s[i] = t[i] THEN StrLessFrom(s, t, i + 1)
    ELSE Ord(s[i]) < Ord(t[i])

StrLess(s, t) == StrLessFrom(s, t, 1)

EndsWith(s, suffix) ==
    /\ Len(suffix) <= Len(s)
    /\ SubSeq(s, Len(s) - Len(suffix) + 1, Len(s)) = suffix

\* str.replace(old, new) for single characters.
Replace(s, old, new) == [i \in 1..Len(s) |-> IF s[i] = old THEN new ELSE s[i]]

DigitChar(d) == <<"0", "1", "2", "3", "4", "5", "6", "7", "8", "9">>[d + 1]

IsDigit(c) == c \in {DigitChar(d) : d \in 0..9}

\* n in decimal, zero-padded to width w.
RECURSIVE Pad(_, _)
Pad(n, w) == IF w = 0 THEN <<>> ELSE Append(Pad(n \div 10, w - 1), DigitChar(n % 10))

----------------------------------------------------------------------------
(* Calendar and pandas.Timestamp.                                          *)

\* The proleptic Gregorian date of day number d (days since 1970-01-01).
CivilFromDays(d) ==
    LET z   == d + 719468
        era == z \div 146097
        doe == z - era * 146097
        yoe == (doe - doe \div 1460 + doe \div 36524 - doe \div 146096) \div 365
        doy == doe - (365 * yoe + yoe \div 4 - yoe \div 100)
        mp  == (5 * doy + 2) \div 153
        m   == IF mp < 10 THEN mp + 3 ELSE mp - 9
    IN  [year  |-> yoe + era * 400 + (IF m <= 2 THEN 1 ELSE 0),
         month |-> m,
         day   |-> doy - (153 * mp + 2) \div 5 + 1]

\* Monday = 0 ... Sunday = 6 (1970-01-01 was a Thursday).
Weekday(d) == (d + 3) % 7

IsBusinessDay(d) == Weekday(d) < 5

\* A pandas.Timestamp: a date, the second of the day and the microsecond.
Midnight(d) == [date |-> d, sec |-> 0, micro |-> 0]

\* Timestamp.isoformat(): YYYY-MM-DDTHH:MM:SS, followed by .ffffff only
\* when the microsecond is not zero.
Isoformat(ts) ==
    LET c == CivilFromDays(ts.date)
    IN  Pad(c.year, 4) \o <<"-">> \o Pad(c.month, 2) \o <<"-">> \o Pad(c.day, 2)
        \o <<"T">> \o Pad(ts.sec \div 3600, 2)
        \o <<":">> \o Pad((ts.sec \div 60) % 60, 2)
        \o <<":">> \o Pad(ts.sec % 60, 2)
        \o (IF ts.micro # 0 THEN <<".">> \o Pad(ts.micro, 6) ELSE <<>>)

\* pd.bdate_range(start, periods = n): the first n Monday-to-Friday days from
\* start on, at midnight.
RECURSIVE BDateRange(_, _)
BDateRange(start, n) ==
    IF n = 0 THEN <<>>
    ELSE IF IsBusinessDay(start) THEN <<Midnight(start)>> \o BDateRange(start + 1, n - 1)
    ELSE BDateRange(start + 1, n)


\* The day number of a proleptic Gregorian date (inverse of CivilFromDays).
DaysFromCivil(y, m, d) ==
    LET yy  == IF m <= 2 THEN y - 1 ELSE y
        era == yy \div 400
        yoe == yy - era * 400
        doy == (153 * (IF m > 2 THEN m - 3 ELSE m + 9) + 2) \div 5 + d - 1
        doe == yoe * 365 + yoe \div 4 - yoe \div 100 + doy
    IN  era * 146097 + doe - 719468

----------------------------------------------------------------------------
(* Exact rational arithmetic for the returns (floats without rounding).    *)

RECURSIVE Gcd(_, _)
Gcd(a, b) == IF b = 0 THEN a ELSE Gcd(b, a % b)

Abs(x) == IF x < 0 THEN -x ELSE x

\* n/d in lowest terms, d > 0.
Rat(n, d) == LET g == Gcd(Abs(n), d) IN [num |-> n \div g, den |-> d \div g]

\* The missing value (NaN): the only value with denominator 0.
NaN == [num |-> 0, den |-> 0]

IsNaN(r) == r.den = 0

RatSubInt(r, k) == IF IsNaN(r) THEN NaN ELSE Rat(r.num - k * r.den, r.den)

RatMulInt(r, k) == IF IsNaN(r) THEN NaN ELSE Rat(r.num * k, r.den)

----------------------------------------------------------------------------
(* Instruments, the market feed and the repository.                        *)

Tickers == {<<"T">>, <<"A", "T">>}

PriceRow(d, c) == [date |-> d, close |-> c]

\* What the market-data service holds for a ticker: daily bars.
Feed(t) ==
    IF t = <<"T">>
    THEN {PriceRow(DaysFromCivil(2024, 2, 21), 100),
          PriceRow(DaysFromCivil(2024, 2, 22), 102),
          PriceRow(DaysFromCivil(2024, 2, 23), 99)}
    ELSE {PriceRow(DaysFromCivil(2024, 2, 27), 50),
          PriceRow(DaysFromCivil(2024, 2, 28), 55),
          PriceRow(DaysFromCivil(2024, 2, 29), 44)}

\* AlphaVantageAPI.get_daily(ticker): the rows of the ticker.
GetDaily(t) == Feed(t)

\* SQLRepository.insert_table(table_name, records, if_exists = "replace").
InsertTable(st, t, records) == [st EXCEPT ![t] = records]

\* The `limit` most recent rows of a table.
MostRecent(table, limit) ==
    {r \in table : Cardinality({x \in table : x.date > r.date}) < limit}

\* All orderings of a finite set, as sequences.
Orderings(S) ==
    {f \in [1..Cardinality(S) -> S] : \A i, j \in DOMAIN f : i # j => f[i] # f[j]}

\* SQLRepository.read_table(table_name, limit): the `limit` most recent
\* rows, in an order the repository chooses.
ReadTable(st, t, limit) == Orderings(MostRecent(st[t], limit))

----------------------------------------------------------------------------
(* wrangle_data.                                                           *)

\* df.sort_index(ascending = True): the rows by ascending date.
RECURSIVE SortIndex(_)
SortIndex(df) ==
    IF df = <<>> THEN <<>>
    ELSE LET i == CHOOSE k \in DOMAIN df : \A j \in DOMAIN df : df[k].date <= df[j].date
             rest == [j \in 1..(Len(df) - 1) |-> IF j < i THEN df[j] ELSE df[j + 1]]
         IN  <<df[i]>> \o SortIndex(rest)

\* df["close"].pct_change() * 100: no value for the first row, then
\* (close[i] / close[i-1] - 1) * 100.
PctChange100(df) ==
    [i \in DOMAIN df |->
        [date  |-> df[i].date,
         value |-> IF i = 1 THEN NaN
                   ELSE RatMulInt(RatSubInt(Rat(df[i].close, df[i - 1].close), 1), 100)]]

\* Series.dropna(): the entries that hold a value, in order.
RECURSIVE DropNa(_)
DropNa(s) ==
    IF s = <<>> THEN <<>>
    ELSE (IF IsNaN(Head(s).value) THEN <<>> ELSE <<Head(s)>>) \o DropNa(Tail(s))

\* wrangle_data without its sort.
ReturnsUnsorted(df) == DropNa(PctChange100(df))

\* Lines 78-82: what wrangle_data makes of the rows it read.
Returns(df) == DropNa(PctChange100(SortIndex(df)))

Raise(op, kind) == [op |-> op, arg |-> <<>>, status |-> "raise", value |-> kind]

Return(op, arg, value) == [op |-> op, arg |-> arg, status |-> "ok", value |-> value]

\* The calls of lines 64-72, which may fail: the table after them, or the
\* failure.
Refresh ==
    IF use_new_data
    THEN {[failed |-> "", store |-> InsertTable(store, ticker, GetDaily(ticker))],
          [failed |-> "fetch fails", store |-> store],
          [failed |-> "insert fails", store |-> store]}
    ELSE {[failed |-> "", store |-> store]}

WrangleData(N) ==
    \E refresh \in Refresh :
        /\ store' = refresh.store
        /\ UNCHANGED <<ticker, use_new_data, model, aic, bic, files, clock>>
        /\ IF refresh.failed # ""
           THEN /\ ret' = Raise("wrangle_data", refresh.failed)
                /\ UNCHANGED data
           ELSE \/ /\ ret' = Raise("wrangle_data", "read fails")
                   /\ UNCHANGED data
                \/ \E df \in ReadTable(refresh.store, ticker, N + 1) :
                       /\ data' = <<Returns(df)>>
                       /\ ret' = Return("wrangle_data", N, <<>>)

----------------------------------------------------------------------------
(* fit: the estimator is a library; a fitted model is the series it was    *)
(* fitted on and its lag orders, and everything it reports is a function  *)
(* of those.                                                               *)

FittedModel(y, p, q) == [y |-> y, p |-> p, q |-> q]

\* arch_model(...).fit() raises on an empty series and when p = 0 (one of
\* p, o must be strictly positive).
FitRejects(y, p, q) == y = <<>> \/ p = 0

\* Stand-in for the negative log-likelihood of a fit.
NegLogLik(m) == 3 * Len(m.y) + (m.y[Len(m.y)].date % 7)

\* mu, omega, p alphas, q betas.
NumParams(m) == 2 + m.p + m.q

Aic(m) == 2 * NumParams(m) + 2 * NegLogLik(m)

\* Stand-in for k ln(n) - 2 ln(L), with n for ln(n).
Bic(m) == NumParams(m) * Len(m.y) + 2 * NegLogLik(m)

\* A fit that attaches the model before the optimizer has succeeded.
FitAttachesFirst(p, q) ==
    /\ UNCHANGED <<ticker, use_new_data, data, store, files, clock>>
    /\ IF data = <<>>
       THEN /\ ret' = Raise("fit", "no data")
            /\ UNCHANGED <<model, aic, bic>>
       ELSE IF FitRejects(data[1], p, q)
       THEN /\ ret' = Raise("fit", "fitting error")
            /\ UNCHANGED <<model, aic, bic>>
       ELSE LET m == FittedModel(data[1], p, q)
            IN  /\ model' = <<m>>
                /\ \/ /\ ret' = Raise("fit", "optimizer error")
                      /\ UNCHANGED <<aic, bic>>
                   \/ /\ aic' = <<Aic(m)>>
                      /\ bic' = <<Bic(m)>>
                      /\ ret' = Return("fit", <<>>, <<>>)

Fit(p, q) ==
    /\ UNCHANGED <<ticker, use_new_data, data, store, files, clock>>
    /\ IF data = <<>>
       THEN /\ ret' = Raise("fit", "no data")
            /\ UNCHANGED <<model, aic, bic>>
       ELSE IF FitRejects(data[1], p, q)
       THEN /\ ret' = Raise("fit", "fitting error")
            /\ UNCHANGED <<model, aic, bic>>
       ELSE \/ /\ ret' = Raise("fit", "optimizer error")
               /\ UNCHANGED <<model, aic, bic>>
            \/ LET m == FittedModel(data[1], p, q)
               IN  /\ model' = <<m>>
                   /\ aic' = <<Aic(m)>>
                   /\ bic' = <<Bic(m)>>
                   /\ ret' = Return("fit", <<>>, <<>>)

----------------------------------------------------------------------------
(* predict_volatility and __clean_prediction.                              *)

\* Exact on perfect squares, the floor otherwise.
Sqrt(x) == CHOOSE r \in 0..x : r * r <= x /\ x < (r + 1) * (r + 1)

\* Stand-in for the model's forecast variance of step k: a perfect fourth
\* power, so that a root of a root is exact too.
Variance(m, k) ==
    LET b == 1 + ((Len(m.y) + m.p + 2 * m.q + k) % 3) IN b * b * b * b

\* model.forecast(horizon = H, reindex = False).variance: one row, labelled
\* by the last date of the fitted series, with a column per step.
ForecastVariance(m, H) ==
    [index |-> <<Midnight(m.y[Len(m.y)].date)>>,
     values |-> [k \in 1..H |-> Variance(m, k)]]

\* frame ** 0.5, elementwise.
PowHalf(frame) ==
    [index |-> frame.index, values |-> [k \in DOMAIN frame.values |-> Sqrt(frame.values[k])]]

\* A forecast that starts on the last fitted date.
ForecastStartSameDay(prediction) == prediction.index[1].date

\* Line 123: prediction.index[0] + pd.DateOffset(days = 1).
ForecastStart(prediction) == prediction.index[1].date + 1

\* Labels made with str(): a space where isoformat() puts a T.
PredictionIndexStr(dates) == [i \in DOMAIN dates |-> Replace(Isoformat(dates[i]), "T", " ")]

\* Line 129: the labels of the forecast.
PredictionIndex(dates) == [i \in DOMAIN dates |-> Isoformat(dates[i])]

\* Line 132: prediction.values.flatten() ** 0.5.
PredictionData(prediction) == PowHalf(prediction).values

\* __clean_prediction: a dict is its items in insertion order.
CleanPrediction(prediction) ==
    LET start == ForecastStart(prediction)
        prediction_dates == BDateRange(start, Len(prediction.values))
        prediction_index == PredictionIndex(prediction_dates)
        values == PredictionData(prediction)
    IN  [i \in DOMAIN values |-> [key |-> prediction_index[i], value |-> values[i]]]

\* Lines 156-162.
Prediction(m, H) == CleanPrediction(PowHalf(ForecastVariance(m, H)))

PredictVolatility(H) ==
    /\ UNCHANGED <<ticker, use_new_data, data, model, aic, bic, store, files, clock>>
    /\ IF model = <<>>
       THEN ret' = Raise("predict_volatility", "no model")
       ELSE IF H < 1
       THEN ret' = Raise("predict_volatility", "horizon")
       ELSE ret' = Return("predict_volatility", H, Prediction(model[1], H))

----------------------------------------------------------------------------
(* dump and load.                                                          *)

\* settings.model_directory.
ModelDirectory == <<"m", "o", "d", "e", "l", "s">>

\* os.path.join(directory, name).
PathJoin(directory, name) == directory \o <<"/">> \o name

\* The clock's first reading: half a second before a change of date.
ClockStart == [date |-> DaysFromCivil(2024, 3, 31), sec |-> 86399, micro |-> 0]

\* pd.Timestamp.now(): the local wall clock at tick c.
Now(c) ==
    LET us  == ClockStart.micro + c * TickMicros
        sec == ClockStart.sec + us \div 1000000
    IN  [date  |-> ClockStart.date + sec \div 86400,
         sec   |-> sec % 86400,
         micro |-> us % 1000000]

\* Line 174.
DumpTimestamp(c) == Replace(Isoformat(Now(c)), ":", "-")

\* A path without the time stamp.
DumpPathUnstamped(c, t) == PathJoin(ModelDirectory, t \o <<".", "p", "k", "l">>)

\* Line 177.
DumpPath(c, t) == PathJoin(ModelDirectory, DumpTimestamp(c) \o <<"_">> \o t \o <<".", "p", "k", "l">>)

\* A file: what joblib wrote, when, and for which instrument.
File(m, c, t) == [content |-> m, mtime |-> c, ticker |-> t]

\* joblib.dump(value, path): creates the file or replaces its content.
Written(fs, path, file) == [f \in DOMAIN fs \cup {path} |-> IF f = path THEN file ELSE fs[f]]

Dump ==
    /\ UNCHANGED <<ticker, use_new_data, data, model, aic, bic, store, clock>>
    /\ IF model = <<>>
       THEN /\ ret' = Raise("dump", "no model")
            /\ UNCHANGED files
       ELSE LET filepath == DumpPath(clock, ticker)
            IN  /\ filepath \in DOMAIN files \/ Cardinality(DOMAIN files) < MaxFiles
                /\ files' = Written(files, filepath, File(model[1], clock, ticker))
                /\ ret' = Return("dump", <<>>, filepath)

\* Line 192.
LoadPattern(t) == PathJoin(ModelDirectory, <<"*">> \o t \o <<".", "p", "k", "l">>)

\* glob(pattern) for a pattern directory/*suffix: the paths of the directory
\* whose name ends with the suffix and does not start with a dot.
Glob(fs, pattern) ==
    LET prefix == PathJoin(ModelDirectory, <<>>)
        suffix == SubSeq(pattern, Len(prefix) + 2, Len(pattern))
    IN  {f \in DOMAIN fs : /\ EndsWith(f, suffix)
                           /\ Len(f) >= Len(prefix) + Len(suffix)
                           /\ f[Len(prefix) + 1] # "."}

\* sorted(paths): ascending, as Python orders str.
RECURSIVE Sorted(_)
Sorted(S) ==
    IF S = {} THEN <<>>
    ELSE LET least == CHOOSE s \in S : \A t \in S : s = t \/ StrLess(s, t)
         IN  <<least>> \o Sorted(S \ {least})

\* Line 199.
NoModelMessage(t) ==
    <<"N", "o", " ", "m", "o", "d", "e", "l", " ", "t", "r", "a", "i", "n", "e", "d", " ",
      "f", "o", "r", " ", "'">> \o t \o <<"'">>

Load ==
    LET found == Sorted(Glob(files, LoadPattern(ticker)))
    IN  /\ UNCHANGED <<ticker, use_new_data, data, aic, bic, store, files, clock>>
        /\ IF found = <<>>
           THEN /\ ret' = Raise("load", NoModelMessage(ticker))
                /\ UNCHANGED model
           ELSE LET model_path == found[Len(found)]
                IN  /\ model' = <<files[model_path].content>>
                    /\ ret' = Return("load", <<>>, <<>>)

----------------------------------------------------------------------------
(* The session, its callers and time.                                      *)

\* __init__: a new session for an instrument; the repository, the model
\* directory and the clock outlive sessions.
Construct(t, flag) ==
    /\ ticker' = t
    /\ use_new_data' = flag
    /\ data' = <<>>
    /\ model' = <<>>
    /\ aic' = <<>>
    /\ bic' = <<>>
    /\ ret' = Return("__init__", <<>>, <<>>)
    /\ UNCHANGED <<store, files, clock>>

\* Time passes between calls.
Tick ==
    /\ clock < MaxTicks
    /\ clock' = clock + 1
    /\ ret' = Return("none", <<>>, <<>>)
    /\ UNCHANGED <<ticker, use_new_data, data, model, aic, bic, store, files>>

Init ==
    /\ ticker \in Tickers
    /\ use_new_data \in BOOLEAN
    /\ data = <<>>
    /\ model = <<>>
    /\ aic = <<>>
    /\ bic = <<>>
    /\ store = [t \in Tickers |-> {}]
    /\ files = <<>>
    /\ clock = 0
    /\ ret = Return("__init__", <<>>, <<>>)

Next ==
    \/ \E t \in Tickers, flag \in BOOLEAN : Construct(t, flag)
    \/ \E N \in Observations : WrangleData(N)
    \/ \E p, q \in LagOrders : Fit(p, q)
    \/ \E H \in 0..MaxHorizon : PredictVolatility(H)
    \/ Dump
    \/ Load
    \/ Tick

Spec == Init /\ [][Next]_vars

----------------------------------------------------------------------------
(* wrangle_data over arbitrary price tables.                               *)

MaxRows == 4         \* a table holds at most MaxRows rows

WrangleDates == {DaysFromCivil(2024, 2, 27) + i : i \in 0..(MaxRows - 1)}

WrangleCloses == {40, 50}

\* Every table over those dates: a close for each date it holds.
Tables ==
    UNION {{{PriceRow(d, f[d]) : d \in D} : f \in [D -> WrangleCloses]} : D \in SUBSET WrangleDates}

InitWrangle ==
    /\ ticker = <<"T">>
    /\ use_new_data \in BOOLEAN
    /\ data = <<>>
    /\ model = <<>>
    /\ aic = <<>>
    /\ bic = <<>>
    /\ \E table \in Tables : store = [t \in Tickers |-> IF t = <<"T">> THEN table ELSE {}]
    /\ files = <<>>
    /\ clock = 0
    /\ ret = Return("__init__", <<>>, <<>>)

NextWrangle == \E N \in 0..MaxRows : WrangleData(N)

SpecWrangle == InitWrangle /\ [][NextWrangle]_vars

----------------------------------------------------------------------------
(* Properties.                                                             *)

Called(op) == ret.op = op

Returned(op) == ret.op = op /\ ret.status = "ok"

Raised(op) == ret.op = op /\ ret.status = "raise"

\* The name of a file of the model directory.
Basename(path) == SubSeq(path, Len(ModelDirectory) + 2, Len(path))

Contains(s, part) == \E i \in 1..(Len(s) - Len(part) + 1) : SubSeq(s, i, i + Len(part) - 1) = part

\* The artifacts whose name ends in _<ticker>.pkl.
ArtifactsOf(t) == {f \in DOMAIN files : EndsWith(f, <<"_">> \o t \o <<".", "p", "k", "l">>)}

\* The number a text of decimal digits denotes.
RECURSIVE Number(_)
Number(s) ==
    IF s = <<>> THEN 0
    ELSE 10 * Number(SubSeq(s, 1, Len(s) - 1))
         + (CHOOSE d \in 0..9 : DigitChar(d) = s[Len(s)])

AllDigits(s) == \A i \in DOMAIN s : IsDigit(s[i])

\* s starts with a calendar date YYYY-MM-DD that exists.
StartsWithDate(s) ==
    /\ Len(s) >= 10
    /\ AllDigits(SubSeq(s, 1, 4)) /\ s[5] = "-"
    /\ AllDigits(SubSeq(s, 6, 7)) /\ s[8] = "-"
    /\ AllDigits(SubSeq(s, 9, 10))
    /\ LET y == Number(SubSeq(s, 1, 4))
           m == Number(SubSeq(s, 6, 7))
           d == Number(SubSeq(s, 9, 10))
       IN  /\ m \in 1..12
           /\ d \in 1..31
           /\ CivilFromDays(DaysFromCivil(y, m, d)) = [year |-> y, month |-> m, day |-> d]

\* The date such a text starts with.
DateOf(s) ==
    DaysFromCivil(Number(SubSeq(s, 1, 4)), Number(SubSeq(s, 6, 7)), Number(SubSeq(s, 9, 10)))

\* The last date of the series the active model was fitted on.
FittedUntil == model[1].y[Len(model[1].y)].date


\* C1: after load() for ticker T, if no file name ends in _T.pkl the call
\* raised an error whose message names T; otherwise the active model is the
\* content of the greatest file name among those ending in _T.pkl, a file
\* that was saved for T.
LoadActivatesOwnLatest ==
    Called("load") =>
        LET own == ArtifactsOf(ticker)
        IN  IF own = {}
            THEN ret.status = "raise" /\ Contains(ret.value, ticker)
            ELSE /\ ret.status = "ok"
                 /\ \E f \in own :
                        /\ \A g \in own : g = f \/ StrLess(g, f)
                        /\ model = <<files[f].content>>
                        /\ files[f].ticker = ticker

\* C2: of two artifacts of the same instrument, the one written earlier has
\* the smaller file name.
NameOrderIsCreationOrder ==
    \A f, g \in DOMAIN files :
        files[f].ticker = files[g].ticker /\ files[f].mtime < files[g].mtime
            => StrLess(Basename(f), Basename(g))

\* C3: when the artifact written last of all is one of the session's
\* instrument (its dump() was followed by no other), load() succeeds and
\* leaves the dumped model as the active model, so that the forecasts of the
\* two agree for every horizon.
RoundTrip ==
    Called("load") =>
        \A f \in DOMAIN files :
            (/\ files[f].ticker = ticker
             /\ \A g \in DOMAIN files \ {f} : files[g].mtime < files[f].mtime)
            => /\ ret.status = "ok"
               /\ model = <<files[f].content>>
               /\ \A H \in 1..MaxHorizon :
                      Prediction(model[1], H) = Prediction(files[f].content, H)

\* The path a dump() of ticker t returns: the directory, a time stamp of 19
\* characters or of 26 with a fraction, without a colon, then _<t>.pkl.
IsArtifactPath(path, t) ==
    LET prefix == ModelDirectory \o <<"/">>
        suffix == <<"_">> \o t \o <<".", "p", "k", "l">>
        stamp  == SubSeq(path, Len(prefix) + 1, Len(path) - Len(suffix))
    IN  /\ Len(path) >= Len(prefix) + Len(suffix)
        /\ SubSeq(path, 1, Len(prefix)) = prefix
        /\ EndsWith(path, suffix)
        /\ Len(stamp) \in {19, 26}
        /\ StartsWithDate(stamp)
        /\ \A i \in DOMAIN stamp : stamp[i] # ":"

\* C4, as amended: a successful dump() returns the path
\* <directory>/<timestamp>_<ticker>.pkl, leaves in the directory exactly the
\* files that were there and that one, now holding the active model, and
\* leaves every other file as it was; the file is new unless one of that
\* very name existed, which is then replaced.
DumpWritesOneArtifact ==
    [][Returned("dump")' =>
        LET path == ret'.value
        IN  /\ IsArtifactPath(path, ticker)
            /\ DOMAIN files' = DOMAIN files \cup {path}
            /\ files'[path].content = model[1]
            /\ \A f \in DOMAIN files \ {path} : files'[f] = files[f]
            /\ Cardinality(DOMAIN files') =
                   Cardinality(DOMAIN files) + (IF path \in DOMAIN files THEN 0 ELSE 1)]_vars

\* C4, as claimed: every successful dump() adds a file that was not there
\* and leaves every file that was there as it was.
DumpNeverOverwrites ==
    [][Returned("dump")' =>
        LET path == ret'.value
        IN  /\ IsArtifactPath(path, ticker)
            /\ path \notin DOMAIN files
            /\ DOMAIN files' = DOMAIN files \cup {path}
            /\ files'[path].content = model[1]
            /\ \A f \in DOMAIN files : files'[f] = files[f]
            /\ Cardinality(DOMAIN files') = Cardinality(DOMAIN files) + 1]_vars

\* A dump() has returned, and the directory holds two artifacts.
DumpedTwice == Returned("dump") /\ Cardinality(DOMAIN files) = 2 /\ ret.value \in DOMAIN files

\* The rows wrangle_data(N) is to read: the N + 1 most recent of the table,
\* all of it when it holds fewer.
RowsToRead(N) ==
    LET table == store[ticker]
        n == IF Cardinality(table) < N + 1 THEN Cardinality(table) ELSE N + 1
    IN  CHOOSE S \in SUBSET table :
            /\ Cardinality(S) = n
            /\ \A r \in S, x \in table \ S : x.date < r.date

\* The i-th row of a set of rows in date order.
NthByDate(S, i) == CHOOSE r \in S : Cardinality({x \in S : x.date < r.date}) = i - 1

\* C5: after wrangle_data(N) the working series holds, for the rows read
\* taken in date order, one entry per row but the first, dated as the row
\* and valued 100 * (close / previous close - 1); it has N entries when the
\* table holds N + 1 rows or more and none when it holds fewer than 2; its
\* dates increase strictly and no entry is a missing value.
WrangleYieldsReturns ==
    Returned("wrangle_data") =>
        LET N == ret.arg
            R == RowsToRead(N)
            n == Cardinality(R)
        IN  /\ data # <<>>
            /\ Len(data[1]) = (IF n = 0 THEN 0 ELSE n - 1)
            /\ Cardinality(store[ticker]) >= N + 1 => Len(data[1]) = N
            /\ Cardinality(store[ticker]) < 2 => data[1] = <<>>
            /\ \A i \in DOMAIN data[1] :
                   LET prev == NthByDate(R, i)
                       row  == NthByDate(R, i + 1)
                       v    == data[1][i].value
                   IN  /\ data[1][i].date = row.date
                       /\ ~IsNaN(v)
                       /\ v.den > 0
                       /\ v.num * prev.close = 100 * (row.close - prev.close) * v.den
                       /\ i > 1 => data[1][i - 1].date < data[1][i].date

\* wrangle_data has returned a series of two returns or more, one of them a
\* loss, out of a table that holds more rows than it read.
WrangledSeveral ==
    /\ Returned("wrangle_data")
    /\ Len(data[1]) >= 2
    /\ \E i \in DOMAIN data[1] : data[1][i].value.num < 0
    /\ Cardinality(store[ticker]) > ret.arg + 1

\* C6: predict_volatility(H) returns H entries whose keys are dated, in
\* order, on the first H Monday-to-Friday days after the last date of the
\* series the active model was fitted on.
ForecastDates ==
    Returned("predict_volatility") =>
        LET H == ret.arg
            out == ret.value
        IN  /\ H >= 1
            /\ Len(out) = H
            /\ \A i \in 1..H : StartsWithDate(out[i].key)
            /\ \A i \in 1..H :
                   /\ IsBusinessDay(DateOf(out[i].key))
                   /\ DateOf(out[i].key) > FittedUntil
                   /\ i > 1 => DateOf(out[i - 1].key) < DateOf(out[i].key)
            /\ \A d \in (FittedUntil + 1)..DateOf(out[H].key) :
                   IsBusinessDay(d) => \E i \in 1..H : DateOf(out[i].key) = d

\* A forecast of two steps or more that starts after a weekend, from a
\* model that was not fitted on the session's present working series.
ForecastAfterWeekend ==
    /\ Returned("predict_volatility")
    /\ Len(ret.value) >= 2
    /\ DateOf(ret.value[1].key) > FittedUntil + 1
    /\ data # <<model[1].y>>

\* C7: the k-th value predict_volatility returns is the square root of the
\* model's forecast variance of step k, and is not negative.
VolatilityIsRootOfVariance ==
    Returned("predict_volatility") =>
        \A k \in DOMAIN ret.value :
            /\ ret.value[k].value >= 0
            /\ ret.value[k].value * ret.value[k].value = Variance(model[1], k)

\* C8, as amended: every key predict_volatility returns is the business
\* date in ISO-8601 date-time format, YYYY-MM-DDT00:00:00.
KeysAreIsoDateTimes ==
    Returned("predict_volatility") =>
        \A k \in DOMAIN ret.value :
            LET key == ret.value[k].key
            IN  /\ Len(key) = 19
                /\ StartsWithDate(key)
                /\ SubSeq(key, 11, 19) = <<"T", "0", "0", ":", "0", "0", ":", "0", "0">>

\* C8, as claimed: every key is a calendar date YYYY-MM-DD and nothing more.
KeysAreIsoDates ==
    Returned("predict_volatility") =>
        \A k \in DOMAIN ret.value :
            LET key == ret.value[k].key
            IN  Len(key) = 10 /\ StartsWithDate(key)

\* A forecast with a key in March.
ForecastIntoMarch ==
    /\ Returned("predict_volatility")
    /\ \E k \in DOMAIN ret.value : SubSeq(ret.value[k].key, 6, 7) = <<"0", "3">>

\* C9: a call of wrangle_data, fit or load that raises leaves the working
\* series, the active model, aic and bic as they were.
FailureLeavesSession ==
    [][(ret'.status = "raise" /\ ret'.op \in {"wrangle_data", "fit", "load"})
          => UNCHANGED <<data, model, aic, bic>>]_vars

\* fit has raised in a session that holds an active model and its metrics.
FitFailedOnFittedSession == Raised("fit") /\ data # <<>> /\ model # <<>> /\ aic # <<>>

\* C10: whenever the session exposes aic and bic, they are those of the
\* active model.
MetricsAreOfActiveModel ==
    (aic # <<>> \/ bic # <<>>) =>
        /\ model # <<>>
        /\ aic = <<Aic(model[1])>>
        /\ bic = <<Bic(model[1])>>

====
